---------------------------- MODULE Spec2Model ----------------------------
(***************************************************************************)
(* A model of riots.py: the script that mirrors historic Riot Web releases *)
(* into an S3 bucket, renders an index of the hosted versions and          *)
(* invalidates the CloudFront cache.                                       *)
(*                                                                         *)
(* Strings are modelled as sequences of atoms (TLA+ strings that are never *)
(* cut): "v1.1.0" is <<"v", "1.1.0">>, so that s[1:] is Tail(s), a + b is  *)
(* a \o b, and s[len(r):] is a SubSeq.  The version strings handed to      *)
(* compare_version_strings are sequences of single characters.             *)
(***************************************************************************)
EXTENDS Integers, Sequences, FiniteSets, TLC

(***************************************************************************)
(* Bounds of the model.                                                    *)
(***************************************************************************)
\* the longest version string handed to compare_version_strings
MaxVerLen == 5
\* the most releases the GitHub API returns
MaxReleases == 3
\* how many entries of OLDER_RELEASES (those ending at 0.7.3) are passed on
MaxOlder == 2
\* the most runs of the program in a row
MaxRuns == 2

Range(s) == {s[k] : k \in DOMAIN s}

(***************************************************************************)
(* compare_version_strings                                                 *)
(***************************************************************************)
Digits == <<"0", "1">>

DigitValue(c) == CHOOSE d \in 0..(Len(Digits) - 1) : Digits[d + 1] = c

\* str.split('.'): the pieces between the dots, empty pieces included
RECURSIVE Split(_)
Split(s) ==
    IF \A k \in DOMAIN s : s[k] # "."
    THEN <<s>>
    ELSE LET d == CHOOSE k \in DOMAIN s :
                      s[k] = "." /\ \A j \in 1..(k - 1) : s[j] # "."
         IN  <<SubSeq(s, 1, d - 1)>> \o Split(SubSeq(s, d + 1, Len(s)))

\* int(x) of a string of decimal digits
RECURSIVE ToInt(_)
ToInt(x) ==
    IF Len(x) = 0 THEN 0
    ELSE 10 * ToInt(SubSeq(x, 1, Len(x) - 1)) + DigitValue(x[Len(x)])

ParseVersion(s) == [k \in DOMAIN Split(s) |-> ToInt(Split(s)[k])]

\* Python's order on lists of integers: a > b
RECURSIVE ListGreater(_, _)
ListGreater(a, b) ==
    IF Len(a) = 0 THEN FALSE
    ELSE IF Len(b) = 0 THEN TRUE
    ELSE IF a[1] # b[1] THEN a[1] > b[1]
    ELSE ListGreater(Tail(a), Tail(b))

\* Python's max(a, b): the first argument unless the second is greater
ListMax(a, b) == IF ListGreater(b, a) THEN b ELSE a

ListMin(a, b) == IF ListGreater(b, a) THEN a ELSE b

Sign(x, y) == IF x > y THEN 1 ELSE IF x < y THEN -1 ELSE 0

\* the loop of compare_version_strings over range(n), from index i (0-based)
RECURSIVE CompareFrom(_, _, _, _)
CompareFrom(a, b, i, n) ==
    IF i >= n THEN 0
    ELSE LET a_part == IF Len(a) > i THEN a[i + 1] ELSE 0
             b_part == IF Len(b) > i THEN b[i + 1] ELSE 0
         IN  IF a_part # b_part THEN Sign(a_part, b_part)
             ELSE CompareFrom(a, b, i + 1, n)

\* a plausible slip: the loop runs over the smaller list
compare_version_strings_min(sa, sb) ==
    LET a == ParseVersion(sa)
        b == ParseVersion(sb)
    IN  CompareFrom(a, b, 0, Len(ListMin(a, b)))

compare_version_strings(sa, sb) ==
    LET a == ParseVersion(sa)
        b == ParseVersion(sb)
    IN  CompareFrom(a, b, 0, Len(ListMax(a, b)))

\* the version strings the comparison is checked on: non-empty runs of digits
\* separated by single dots
Chars == Range(Digits) \cup {"."}

WellFormed(s) ==
    /\ Len(s) >= 1
    /\ s[1] # "."
    /\ s[Len(s)] # "."
    /\ \A k \in 1..(Len(s) - 1) : ~(s[k] = "." /\ s[k + 1] = ".")

VersionStrings ==
    {s \in UNION {[1..n -> Chars] : n \in 1..MaxVerLen} : WellFormed(s)}

(***************************************************************************)
(* The data of the program                                                 *)
(***************************************************************************)
OlderRelease(n, d) == [name |-> <<n>>, body |-> <<>>, date |-> <<d>>]

OLDER_RELEASES ==
    << OlderRelease("0.8.3", "2016-10-12"),
       OlderRelease("0.8.2-staging", "2016-10-05"),
       OlderRelease("0.8.1", "2016-09-21"),
       OlderRelease("0.8.0", "2016-09-21"),
       OlderRelease("0.7.5-r3", "2016-09-02"),
       OlderRelease("0.7.5-r2", "2016-09-01"),
       OlderRelease("0.7.5-r1", "2016-08-28"),
       OlderRelease("0.7.4", "2016-08-11"),
       OlderRelease("0.7.3", "2016-06-20"),
       OlderRelease("0.7.2", "2016-06-02"),
       OlderRelease("0.7.0", "2016-06-02"),
       OlderRelease("0.6.1", "2016-04-22"),
       OlderRelease("0.6.0", "2016-04-19"),
       OlderRelease("0.5.0", "2016-03-30"),
       OlderRelease("0.4.1", "2016-03-23"),
       OlderRelease("0.4.0", "2016-03-23"),
       OlderRelease("0.3.0", "2016-03-11"),
       OlderRelease("0.2.0", "2016-02-25") >>

\* the position of 0.7.3 in OLDER_RELEASES
BoundaryIndex == CHOOSE k \in DOMAIN OLDER_RELEASES :
                     OLDER_RELEASES[k].name = <<"0.7.3">>

\* the older releases do_the_needful passes on: the MaxOlder entries of
\* OLDER_RELEASES that end at 0.7.3, in the table's order
older_releases ==
    SubSeq(OLDER_RELEASES, BoundaryIndex - MaxOlder + 1, BoundaryIndex)

\* an asset of a GitHub release
Asset(file, ext) ==
    [name |-> <<file, ext>>,
     browser_download_url |->
         <<"https://github.com/vector-im/riot-web/releases/download/",
           file, ext>>]

\* a release as the GitHub API returns it
Release(ver, md, day, assets) ==
    [tag_name |-> <<"v", ver>>, name |-> <<"v", ver>>, body |-> md,
     created_at |-> <<day, "T00:00:00Z">>, assets |-> assets]

\* the releases the API can return, most recent first: 1.0.0 carries two
\* tarballs, 0.8.4 none, 0.7.1 is older than the 0.7.3 boundary
RELEASES ==
    << Release("1.1.0", <<"changes">>, "2017-06-01",
               << Asset("riot-v1.1.0", ".tar.gz"),
                  Asset("riot-v1.1.0", ".tar.gz.asc") >>),
       Release("1.0.0", <<"changes">>, "2017-05-01",
               << Asset("riot-v1.0.0", ".tar.gz"),
                  Asset("riot-v1.0.0-rc", ".tar.gz") >>),
       Release("0.9.0", <<>>, "2016-11-19",
               << Asset("riot-v0.9.0", ".tar.gz") >>),
       Release("0.8.4", <<"changes">>, "2016-11-04",
               << Asset("riot-v0.8.4", ".tar.gz.asc") >>),
       Release("0.7.3", <<>>, "2016-06-20",
               << Asset("riot-v0.7.3", ".tar.gz") >>),
       Release("0.7.1", <<>>, "2016-06-01",
               << Asset("riot-v0.7.1", ".tar.gz") >>) >>

\* the subsequence of s at the positions in S
RECURSIVE Pick(_, _)
Pick(s, S) ==
    IF S = {} THEN <<>>
    ELSE LET k == CHOOSE j \in S : \A m \in S : j <= m
         IN  <<s[k]>> \o Pick(s, S \ {k})

\* what get_releases can return: at most MaxReleases of RELEASES, in order
Catalogs ==
    {Pick(RELEASES, S) : S \in {T \in SUBSET DOMAIN RELEASES :
                                    Cardinality(T) <= MaxReleases}}

(***************************************************************************)
(* Files: the local filesystem and the archives                            *)
(***************************************************************************)
IsPrefix(r, p) == Len(r) <= Len(p) /\ SubSeq(p, 1, Len(r)) = r

\* the files of the archive whose top-level directory is top: the 0.9.0
\* archive was released without a sample configuration
ArchiveFiles(top) ==
    IF top = "riot-v0.9.0"
    THEN {<<"/", "version">>}
    ELSE {<<"/", "version">>, <<"/", "config.sample", ".json">>}

\* the tarball served at a download url, named by its top-level directory
TarballAt(url) == [tarball |-> url[2]]

\* tar -zxf of tarball t into directory dir
Extract(fs, t, dir) ==
    LET top == t.tarball
        new == {dir \o <<top>> \o f : f \in ArchiveFiles(top)}
    IN  [p \in DOMAIN fs \cup new |->
            IF p \in new
            THEN [origin |-> top, data |-> SubSeq(p, Len(dir) + 2, Len(p))]
            ELSE fs[p]]

\* os.listdir(dir), dir ending in "/"
listdir(fs, dir) == {p[Len(dir) + 1] : p \in {q \in DOMAIN fs : IsPrefix(dir, q)}}

\* shutil.copyfile(src, dst), src existing
copyfile(fs, src, dst) ==
    [p \in DOMAIN fs \cup {dst} |-> IF p = dst THEN fs[src] ELSE fs[p]]

\* the files os.walk(root) yields
walk(fs, root) == {p \in DOMAIN fs : IsPrefix(root \o <<"/">>, p)}

\* the pre-staged tree of an older release
OlderRoot(name) == <<"older_riots/">> \o name

OlderTree(name) ==
    LET p == OlderRoot(name) \o <<"/", "index", ".html">>
    IN  [q \in {p} |-> [origin |-> "older_riots", data |-> <<"/", "index", ".html">>]]

ConfigFor090 == <<"config.0.9.0", ".json">>

(***************************************************************************)
(* The bucket                                                              *)
(***************************************************************************)
None == "None"

\* mimetypes.guess_type(path)[0]: by the extension, the last atom of path
guess_type(path) ==
    LET ext == path[Len(path)]
    IN  CASE ext = ".html" -> "text/html"
          [] ext = ".css"  -> "text/css"
          [] ext = ".json" -> "application/json"
          [] OTHER         -> None

mime_type(path) ==
    IF guess_type(path) = None THEN "application/octet-stream"
    ELSE guess_type(path)

\* bucket.put_object(Key, Body, ACL, ContentType)
put_object(store, Key, Body, ACL, ContentType) ==
    [k \in DOMAIN store \cup {Key} |->
        IF k = Key THEN [Body |-> Body, ACL |-> ACL, ContentType |-> ContentType]
        ELSE store[k]]

MarkerKey(name) == name \o <<"/">>

EmptyBody == [origin |-> "", data |-> <<>>]

\* a plausible slip: the marker is put at the key without the slash
put_marker_noslash(store, name) ==
    put_object(store, name, EmptyBody, "private", "binary/octet-stream")

\* bucket.put_object(Key='%s/' % name, Body='')
put_marker(store, name) ==
    put_object(store, MarkerKey(name), EmptyBody, "private", "binary/octet-stream")

\* a plausible slip: the root is not cut off the path
destination_path_uncut(name, root, full_path) ==
    name \o <<"/">> \o full_path

\* destination_path = name + full_path[len(root):]
destination_path(name, root, full_path) ==
    name \o SubSeq(full_path, Len(root) + 1, Len(full_path))

\* the put of one file of upload_directory
put_file(store, fs, name, root, full_path) ==
    put_object(store, destination_path(name, root, full_path), fs[full_path],
               "public-read", mime_type(full_path))

\* the answer of the bucket to the probe of key: 200 when the object is
\* there, 404 when it is not, or the error an outage or a denial gives
StoreErrors == {"403"}

ProbeCodes(store, key) ==
    (IF key \in DOMAIN store THEN {"200"} ELSE {"404"}) \cup StoreErrors

\* a plausible slip: every error of the probe is taken as "not there"
is_version_uploaded_swallow(code) ==
    IF code = "200" THEN "True" ELSE "False"

\* is_version_uploaded, given the answer of the bucket
is_version_uploaded(code) ==
    IF code = "200" THEN "True"
    ELSE IF code # "404" THEN "raise"
    ELSE "False"

get_name(release) == Tail(release.tag_name)

endswith(s, extension) == Len(s) >= 1 /\ s[Len(s)] = extension

get_download_link(release) ==
    LET tar_gzs == SelectSeq(release.assets,
                             LAMBDA asset : endswith(asset.name, ".tar.gz"))
    IN  IF Len(tar_gzs) # 1 THEN <<None>>
        ELSE tar_gzs[1].browser_download_url

Boundary == <<"0.7.3">>

\* the entry of the index built from a release of the API: the changelog is
\* rendered from markdown unless it is empty
Entry(release) ==
    [name |-> Tail(release.name),
     body |-> IF release.body # <<>>
              THEN <<"<p>">> \o release.body \o <<"</p>">>
              ELSE <<>>,
     date |-> SubSeq(release.created_at, 1, 1)]

\* the page rendered from the template with {'releases': released}
Page(released) == [origin |-> "site/index.mustache", data |-> released]

IndexKey == <<"index", ".html">>

site_files ==
    << [source |-> <<"site/", "style", ".css">>,
        destination |-> <<"style", ".css">>],
       [source |-> <<"site/", "privacy", ".html">>,
        destination |-> <<"privacy", ".html">>] >>

\* the versions upload_directory publishes without an error, all at once:
\* every file under root at its key, and the marker
UploadAll(store, fs, name, root) ==
    LET files == walk(fs, root)
        keyOf(p) == destination_path(name, root, p)
        keys == {keyOf(p) : p \in files}
    IN  [k \in DOMAIN store \cup keys \cup {MarkerKey(name)} |->
            IF k = MarkerKey(name)
            THEN [Body |-> EmptyBody, ACL |-> "private",
                  ContentType |-> "binary/octet-stream"]
            ELSE IF k \in keys
            THEN LET p == CHOOSE q \in files : keyOf(q) = k
                 IN  [Body |-> fs[p], ACL |-> "public-read",
                      ContentType |-> mime_type(p)]
            ELSE store[k]]

ExplodeDir(name) == <<"/tmp/exploded/">> \o name \o <<"/">>

DownloadPath(name) ==
    <<"/tmp/downloads/">> \o name \o <<"/">> \o name \o <<".tar.gz">>

ConfigSource(name, tar_root) ==
    IF name # <<"0.9.0">>
    THEN tar_root \o <<"/", "config.sample", ".json">>
    ELSE ConfigFor090

ConfigTarget(tar_root) == tar_root \o <<"/", "config", ".json">>

\* the local files before a run: the pre-staged older releases, the
\* configuration file for 0.9.0 and the files of the site
InitialFiles ==
    LET older == UNION {DOMAIN OlderTree(older_releases[k].name) :
                           k \in DOMAIN older_releases}
        site == {site_files[k].source : k \in DOMAIN site_files}
    IN  [p \in older \cup {ConfigFor090} \cup site |->
            IF p = ConfigFor090
            THEN [origin |-> "config.0.9.0.json", data |-> ConfigFor090]
            ELSE IF p \in site
            THEN [origin |-> "site", data |-> p]
            ELSE [origin |-> "older_riots", data |-> <<"/", "index", ".html">>]]

\* the tree upload publishes for a release of the API whose tarball
\* downloads and extracts: the archive with the configuration file put in
ReleaseRoot(release) ==
    ExplodeDir(get_name(release))
        \o <<TarballAt(get_download_link(release)).tarball>>

ReleaseFiles(release) ==
    LET name == get_name(release)
        fs1 == Extract(InitialFiles, TarballAt(get_download_link(release)),
                       ExplodeDir(name))
    IN  copyfile(fs1, ConfigSource(name, ReleaseRoot(release)),
                 ConfigTarget(ReleaseRoot(release)))

\* the bucket after earlier runs published the older releases named in O
\* and the releases at the positions M of the catalog
RECURSIVE Published(_, _, _)
Published(rels, O, M) ==
    IF O # {}
    THEN LET n == CHOOSE x \in O : TRUE
         IN  UploadAll(Published(rels, O \ {n}, M), InitialFiles, n, OlderRoot(n))
    ELSE IF M # {}
    THEN LET k == CHOOSE x \in M : TRUE
         IN  UploadAll(Published(rels, O, M \ {k}), ReleaseFiles(rels[k]),
                       get_name(rels[k]), ReleaseRoot(rels[k]))
    ELSE <<>>

OlderNames == {older_releases[k].name : k \in DOMAIN older_releases}

\* the releases of a catalog an earlier run can have published: those with
\* one tarball, not published as an older release
Publishable(rels) ==
    {k \in DOMAIN rels : /\ get_download_link(rels[k]) # <<None>>
                          /\ get_name(rels[k]) \notin OlderNames}

(***************************************************************************)
(* The state of a run of do_the_needful                                    *)
(***************************************************************************)
VARIABLES
    releases,       \* the list get_releases returned
    run_index,      \* the --index flag
    run_upload,     \* the --upload flag
    store,          \* the bucket: key -> [Body, ACL, ContentType]
    fs,             \* the local files: path -> content
    pc,             \* where the run is
    i,              \* the index of the loop the run is in
    released,       \* index: the entries collected for the template
    filename,       \* upload: the local variable filename, <<>> while unbound
    tar_root,       \* upload: the local variable tar_root
    ud,             \* the frame of the call of upload_directory under way
    err,            \* the exception that ended the run
    run,            \* the number of the run
    invalidations,  \* the invalidation batches CloudFront was sent
    puts,           \* history: the put_object calls that succeeded
    fetched,        \* history: the downloads requested, with their status
    probe,          \* history: the last call of is_version_uploaded
    cmp_a, cmp_b,   \* the arguments of a call of compare_version_strings
    cmp_result      \* <<compare(a, b), compare(b, a)>> once it returned

cmpvars == <<cmp_a, cmp_b, cmp_result>>

catalog == <<releases, run_index, run_upload>>

vars == <<releases, run_index, run_upload, store, fs, pc, i, released,
          filename, tar_root, ud, err, run, invalidations, puts, fetched,
          probe, cmp_a, cmp_b, cmp_result>>

\* no call of upload_directory is under way
NoUd == [name |-> <<>>, root |-> <<>>, todo |-> {}, log |-> <<>>,
         caller |-> ""]

\* is_version_uploaded was not called yet
NoProbe == [phase |-> "", version |-> <<>>, code |-> "", result |-> ""]

\* no exception was raised
NoErr == [kind |-> "", at |-> <<>>]

\* a run begins: the API returns some catalog, the flags are given, the
\* bucket holds what earlier runs published, nothing was downloaded yet
Init ==
    /\ releases \in Catalogs
    /\ run_index \in BOOLEAN
    /\ run_upload \in BOOLEAN
    /\ \E O \in SUBSET OlderNames :
         \E M \in SUBSET Publishable(releases) :
            store = Published(releases, O, M)
    /\ fs = InitialFiles
    /\ pc = "start"
    /\ i = 1
    /\ released = <<>>
    /\ filename = <<>>
    /\ tar_root = <<>>
    /\ ud = NoUd
    /\ err = NoErr
    /\ run = 1
    /\ invalidations = 0
    /\ puts = {}
    /\ fetched = {}
    /\ probe = NoProbe
    /\ cmp_a = <<"0">>
    /\ cmp_b = <<"0">>
    /\ cmp_result = <<>>

(***************************************************************************)
(* Control flow                                                            *)
(***************************************************************************)
\* a plausible slip: upload is run before index
NextPhaseUploadFirst(p) ==
    CASE p = "start"  -> IF run_upload THEN "upload"
                         ELSE IF run_index THEN "index" ELSE "invalidate"
      [] p = "upload" -> IF run_index THEN "index" ELSE "invalidate"
      [] OTHER        -> "invalidate"

\* the phase do_the_needful runs after phase p: index if asked for, then
\* upload if asked for, then the invalidation
NextPhase(p) ==
    CASE p = "start" -> IF run_index THEN "index"
                        ELSE IF run_upload THEN "upload" ELSE "invalidate"
      [] p = "index" -> IF run_upload THEN "upload" ELSE "invalidate"
      [] OTHER       -> "invalidate"

\* for release in releases, in index
IndexLoop(j) ==
    /\ i' = j
    /\ pc' = IF j <= Len(releases) THEN "index_filter" ELSE "index_render"

\* for release in releases, in upload, without the break at 0.7.3
ModernLoopNoBreak(j) ==
    /\ i' = j
    /\ pc' = IF j <= Len(releases) THEN "upload_modern" ELSE "upload_return"

\* for release in releases, in upload: the loop ends at 0.7.3
ModernLoop(j) ==
    /\ i' = j
    /\ pc' = IF j <= Len(releases) /\ get_name(releases[j]) # Boundary
             THEN "upload_modern"
             ELSE "upload_return"

\* for release in older_releases, in upload
OlderLoop(j) ==
    IF j <= Len(older_releases)
    THEN i' = j /\ pc' = "upload_older"
    ELSE ModernLoop(1)

\* do_the_needful enters a phase
Goto(phase) ==
    CASE phase = "index"  -> IndexLoop(1)
      [] phase = "upload" -> OlderLoop(1)
      [] OTHER            -> i' = 1 /\ pc' = "invalidate"

\* an exception nothing catches ends the run
Abort(kind, at) ==
    /\ pc' = "aborted"
    /\ err' = [kind |-> kind, at |-> at]

\* the puts after one more: root is the local tree the object was
\* read from
Logged(phase, key, root) ==
    puts \cup {[run |-> run, phase |-> phase, key |-> key, root |-> root]}

\* the record of a call of is_version_uploaded that the bucket answered
\* with code
Probed(phase, version, code) ==
    [phase |-> phase, version |-> version, code |-> code,
     result |-> is_version_uploaded(code)]

(***************************************************************************)
(* do_the_needful                                                          *)
(***************************************************************************)
\* the session and the clients are made, the releases are fetched, and the
\* first phase the flags ask for begins
Start ==
    /\ pc = "start"
    /\ Goto(NextPhase("start"))
    /\ UNCHANGED <<catalog, store, fs, released, filename, tar_root, ud, err,
                   run, invalidations, puts, fetched, probe, cmpvars>>

\* index: one release of the comprehension that filters the releases by
\* is_version_uploaded; an unmarked release is kept too
IndexFilterAll ==
    /\ pc = "index_filter"
    /\ LET release == releases[i]
           version == get_name(release)
       IN  \E code \in ProbeCodes(store, MarkerKey(version)) :
              /\ probe' = Probed("index", version, code)
              /\ IF probe'.result = "raise"
                 THEN /\ Abort("ClientError", version)
                      /\ UNCHANGED <<i, released>>
                 ELSE /\ released' = Append(released, Entry(release))
                      /\ IndexLoop(i + 1)
                      /\ UNCHANGED err
    /\ UNCHANGED <<catalog, store, fs, filename, tar_root, ud, run,
                   invalidations, puts, fetched, cmpvars>>

\* index: one release of the comprehension that filters the releases by
\* is_version_uploaded
IndexFilter ==
    /\ pc = "index_filter"
    /\ LET release == releases[i]
           version == get_name(release)
       IN  \E code \in ProbeCodes(store, MarkerKey(version)) :
              /\ probe' = Probed("index", version, code)
              /\ IF probe'.result = "raise"
                 THEN /\ Abort("ClientError", version)
                      /\ UNCHANGED <<i, released>>
                 ELSE /\ released' = IF probe'.result = "True"
                                     THEN Append(released, Entry(release))
                                     ELSE released
                      /\ IndexLoop(i + 1)
                      /\ UNCHANGED err
    /\ UNCHANGED <<catalog, store, fs, filename, tar_root, ud, run,
                   invalidations, puts, fetched, cmpvars>>

\* index: the older releases are appended, the template is rendered and
\* index.html is put
IndexRender ==
    /\ pc = "index_render"
    /\ released' = released \o older_releases
    /\ \/ /\ store' = put_object(store, IndexKey, Page(released'),
                                 "public-read", "text/html")
          /\ puts' = Logged("index", IndexKey, <<"site/">>)
          /\ pc' = "index_site"
          /\ i' = 1
          /\ UNCHANGED err
       \/ /\ Abort("ClientError", IndexKey)
          /\ UNCHANGED <<store, puts, i>>
    /\ UNCHANGED <<catalog, fs, filename, tar_root, ud, run, invalidations,
                   fetched, probe, cmpvars>>

\* index: one file of site_files is put
IndexSite ==
    /\ pc = "index_site"
    /\ LET source == site_files[i].source
           destination == site_files[i].destination
       IN  \/ /\ store' = put_object(store, destination, fs[source],
                                     "public-read", mime_type(source))
              /\ puts' = Logged("index", destination, <<"site/">>)
              /\ IF i < Len(site_files)
                 THEN i' = i + 1 /\ pc' = "index_site"
                 ELSE Goto(NextPhase("index"))
              /\ UNCHANGED err
           \/ /\ Abort("ClientError", destination)
              /\ UNCHANGED <<store, puts, i>>
    /\ UNCHANGED <<catalog, fs, released, filename, tar_root, ud, run,
                   invalidations, fetched, probe, cmpvars>>

(***************************************************************************)
(* upload and upload_directory                                             *)
(***************************************************************************)
\* the call upload_directory(name, root, bucket) from the loop caller, with
\* the local files as they are at the call
Call_upload_directory(files, name, root, caller) ==
    /\ ud' = [name |-> name, root |-> root, todo |-> walk(files, root),
              log |-> <<>>, caller |-> caller]
    /\ pc' = "upload_directory"

\* upload: one release of older_releases
OlderProbe ==
    /\ pc = "upload_older"
    /\ LET name == older_releases[i].name
       IN  \E code \in ProbeCodes(store, MarkerKey(name)) :
              /\ probe' = Probed("upload", name, code)
              /\ CASE probe'.result = "raise" ->
                        /\ Abort("ClientError", name)
                        /\ UNCHANGED <<i, ud>>
                   [] probe'.result = "True" ->
                        /\ OlderLoop(i + 1)
                        /\ UNCHANGED <<err, ud>>
                   [] OTHER ->
                        /\ Call_upload_directory(fs, name, OlderRoot(name), "older")
                        /\ UNCHANGED <<err, i>>
    /\ UNCHANGED <<catalog, store, fs, released, filename, tar_root, run,
                   invalidations, puts, fetched, cmpvars>>

\* upload: one release of releases, up to the probe of its marker
ModernProbe ==
    /\ pc = "upload_modern"
    /\ LET name == get_name(releases[i])
       IN  \E code \in ProbeCodes(store, MarkerKey(name)) :
              /\ probe' = Probed("upload", name, code)
              /\ CASE probe'.result = "raise" ->
                        /\ Abort("ClientError", name)
                        /\ UNCHANGED i
                   [] probe'.result = "True" ->
                        /\ ModernLoop(i + 1)
                        /\ UNCHANGED err
                   [] OTHER ->
                        /\ pc' = "fetch"
                        /\ UNCHANGED <<err, i>>
    /\ UNCHANGED <<catalog, store, fs, released, filename, tar_root, ud, run,
                   invalidations, puts, fetched, cmpvars>>

\* the status of the answer to a download: success or not
Statuses == {200, 404}

\* upload: the download link is looked up and requested; the tarball is
\* written, and filename bound, when the status is 200
Fetch ==
    /\ pc = "fetch"
    /\ LET name == get_name(releases[i])
           download_url == get_download_link(releases[i])
       IN  IF download_url = <<None>>
           THEN /\ Abort("MissingSchema", name)
                /\ UNCHANGED <<fs, filename, fetched>>
           ELSE \E status_code \in Statuses :
                   /\ fetched' = fetched \cup {[run |-> run, name |-> name,
                                                 status_code |-> status_code]}
                   /\ IF status_code = 200
                      THEN /\ filename' = DownloadPath(name)
                           /\ fs' = [p \in DOMAIN fs \cup {DownloadPath(name)} |->
                                        IF p = DownloadPath(name)
                                        THEN TarballAt(download_url)
                                        ELSE fs[p]]
                      ELSE UNCHANGED <<fs, filename>>
                   /\ pc' = "explode"
                   /\ UNCHANGED err
    /\ UNCHANGED <<catalog, store, i, released, tar_root, ud, run,
                   invalidations, puts, probe, cmpvars>>

\* upload: tar extracts filename, whether it succeeds is not checked, and
\* tar_root is the first entry os.listdir gives
Explode ==
    /\ pc = "explode"
    /\ LET name == get_name(releases[i])
       IN  IF filename = <<>>
           THEN /\ Abort("UnboundLocalError", name)
                /\ UNCHANGED <<fs, tar_root>>
           ELSE \E extracted \in BOOLEAN :
                   /\ fs' = IF extracted
                            THEN Extract(fs, fs[filename], ExplodeDir(name))
                            ELSE fs
                   /\ IF listdir(fs', ExplodeDir(name)) = {}
                      THEN /\ Abort("IndexError", name)
                           /\ UNCHANGED tar_root
                      ELSE \E entry \in listdir(fs', ExplodeDir(name)) :
                              /\ tar_root' = ExplodeDir(name) \o <<entry>>
                              /\ pc' = "config"
                              /\ UNCHANGED err
    /\ UNCHANGED <<catalog, store, i, released, filename, ud, run,
                   invalidations, puts, fetched, probe, cmpvars>>

\* upload: config.json is copied into the tree, from the sample of the
\* archive or, for 0.9.0, from config.0.9.0.json; upload_directory is called
Config ==
    /\ pc = "config"
    /\ LET name == get_name(releases[i])
           src == ConfigSource(name, tar_root)
       IN  IF src \notin DOMAIN fs
           THEN /\ Abort("FileNotFoundError", name)
                /\ UNCHANGED <<fs, ud>>
           ELSE /\ fs' = copyfile(fs, src, ConfigTarget(tar_root))
                /\ Call_upload_directory(fs', name, tar_root, "modern")
                /\ UNCHANGED err
    /\ UNCHANGED <<catalog, store, i, released, filename, tar_root, run,
                   invalidations, puts, fetched, probe, cmpvars>>

\* upload_directory: one file of the walk is put
UdPut ==
    /\ pc = "upload_directory"
    /\ ud.todo # {}
    /\ \E full_path \in ud.todo :
          LET key == destination_path(ud.name, ud.root, full_path)
          IN  \/ /\ store' = put_file(store, fs, ud.name, ud.root, full_path)
                 /\ puts' = Logged("upload", key, ud.root)
                 /\ ud' = [ud EXCEPT !.todo = @ \ {full_path},
                                     !.log = Append(@, key)]
                 /\ UNCHANGED <<pc, err>>
              \/ /\ Abort("ClientError", key)
                 /\ UNCHANGED <<store, puts, ud>>
    /\ UNCHANGED <<catalog, fs, i, released, filename, tar_root, run,
                   invalidations, fetched, probe, cmpvars>>

\* upload_directory: the marker is put before the walk has ended
UdMarkerEarly ==
    /\ pc = "upload_directory"
    /\ \/ /\ store' = put_marker(store, ud.name)
          /\ puts' = Logged("upload", MarkerKey(ud.name), ud.root)
          /\ ud' = [ud EXCEPT !.log = Append(@, MarkerKey(ud.name))]
          /\ pc' = "upload_directory_return"
          /\ UNCHANGED err
       \/ /\ Abort("ClientError", MarkerKey(ud.name))
          /\ UNCHANGED <<store, puts, ud>>
    /\ UNCHANGED <<catalog, fs, i, released, filename, tar_root, run,
                   invalidations, fetched, probe, cmpvars>>

\* upload_directory: after the walk the marker is put
UdMarker ==
    /\ pc = "upload_directory"
    /\ ud.todo = {}
    /\ \/ /\ store' = put_marker(store, ud.name)
          /\ puts' = Logged("upload", MarkerKey(ud.name), ud.root)
          /\ ud' = [ud EXCEPT !.log = Append(@, MarkerKey(ud.name))]
          /\ pc' = "upload_directory_return"
          /\ UNCHANGED err
       \/ /\ Abort("ClientError", MarkerKey(ud.name))
          /\ UNCHANGED <<store, puts, ud>>
    /\ UNCHANGED <<catalog, fs, i, released, filename, tar_root, run,
                   invalidations, fetched, probe, cmpvars>>

\* upload_directory returns to the loop of upload that called it
UdReturn ==
    /\ pc = "upload_directory_return"
    /\ ud' = NoUd
    /\ IF ud.caller = "older" THEN OlderLoop(i + 1) ELSE ModernLoop(i + 1)
    /\ UNCHANGED <<catalog, store, fs, released, filename, tar_root, err, run,
                   invalidations, puts, fetched, probe, cmpvars>>

\* upload returns to do_the_needful
UploadReturn ==
    /\ pc = "upload_return"
    /\ Goto(NextPhase("upload"))
    /\ UNCHANGED <<catalog, store, fs, released, filename, tar_root, ud, err,
                   run, invalidations, puts, fetched, probe, cmpvars>>

\* invalidate_cloudfront_cache: the run ends
Invalidate ==
    /\ pc = "invalidate"
    /\ invalidations' = invalidations + 1
    /\ pc' = "done"
    /\ UNCHANGED <<catalog, store, fs, i, released, filename, tar_root, ud,
                   err, run, puts, fetched, probe, cmpvars>>

\* the program is run again, with the same flags and the same releases,
\* after a run that ended without an error
Rerun ==
    /\ pc = "done"
    /\ run < MaxRuns
    /\ run' = run + 1
    /\ pc' = "start"
    /\ i' = 1
    /\ released' = <<>>
    /\ filename' = <<>>
    /\ tar_root' = <<>>
    /\ ud' = NoUd
    /\ probe' = NoProbe
    /\ UNCHANGED <<catalog, store, fs, err, invalidations, puts, fetched,
                   cmpvars>>

Next ==
    \/ Start
    \/ IndexFilter
    \/ IndexRender
    \/ IndexSite
    \/ OlderProbe
    \/ ModernProbe
    \/ Fetch
    \/ Explode
    \/ Config
    \/ UdPut
    \/ UdMarker
    \/ UdReturn
    \/ UploadReturn
    \/ Invalidate
    \/ Rerun

Spec == Init /\ [][Next]_vars

(***************************************************************************)
(* Calls of compare_version_strings                                        *)
(***************************************************************************)
CmpInit ==
    /\ cmp_a \in VersionStrings
    /\ cmp_b \in VersionStrings
    /\ cmp_result = <<>>
    /\ releases = <<>>
    /\ run_index = FALSE
    /\ run_upload = FALSE
    /\ store = <<>>
    /\ fs = InitialFiles
    /\ pc = "compare"
    /\ i = 1
    /\ released = <<>>
    /\ filename = <<>>
    /\ tar_root = <<>>
    /\ ud = NoUd
    /\ err = NoErr
    /\ run = 1
    /\ invalidations = 0
    /\ puts = {}
    /\ fetched = {}
    /\ probe = NoProbe

Compare ==
    /\ cmp_result = <<>>
    /\ pc = "compare"
    /\ cmp_result' = <<compare_version_strings(cmp_a, cmp_b),
                       compare_version_strings(cmp_b, cmp_a)>>
    /\ UNCHANGED <<cmp_a, cmp_b, catalog, store, fs, pc, i, released,
                   filename, tar_root, ud, err, run, invalidations, puts,
                   fetched, probe>>

CmpNext == Compare

SpecCmp == CmpInit /\ [][CmpNext]_vars

(***************************************************************************)
(* The claims                                                              *)
(***************************************************************************)
CatalogNames == {get_name(releases[k]) : k \in DOMAIN releases}

\* the puts of upload in run r
UploadPuts(r) == {p \in puts : p.run = r /\ p.phase = "upload"}

\* the versions whose marker upload put in run r
MarkedIn(r) ==
    {v \in OlderNames \cup CatalogNames :
        \E p \in UploadPuts(r) : p.key = v \o <<"/">>}

HasPrefix(key, v) == IsPrefix(v \o <<"/">>, key)

\* C1: while upload_directory(name, root, bucket) runs, also when
\* a put raised, the marker name/ is in the bucket only if every file under
\* root was put at name/<relative path> by the call, and the put of the
\* marker is the last put of the call.
C1_MarkerAfterFiles ==
    ud # NoUd =>
        LET marker == ud.name \o <<"/">>
            keys == {ud.name \o SubSeq(p, Len(ud.root) + 1, Len(p)) :
                        p \in walk(fs, ud.root)}
        IN  /\ marker \in DOMAIN store => keys \subseteq Range(ud.log)
            /\ \A k \in DOMAIN ud.log :
                  ud.log[k] = marker =>
                      /\ k = Len(ud.log)
                      /\ keys \subseteq {ud.log[j] : j \in 1..(k - 1)}

\* a call of upload_directory that put three files and then the marker
C1_Witness ==
    /\ ud # NoUd
    /\ Len(ud.log) = 4
    /\ ud.log[4] = ud.name \o <<"/">>
    /\ ud.name \o <<"/">> \in DOMAIN store

\* the position of the 0.7.3 boundary in the catalog, 0 when it is not there
BoundaryAt ==
    IF \E k \in DOMAIN releases : get_name(releases[k]) = Boundary
    THEN CHOOSE k \in DOMAIN releases : get_name(releases[k]) = Boundary
    ELSE 0

\* the tree upload is meant to publish for version v
SourceTree(v) ==
    IF v \in OlderNames
    THEN UploadAll(<<>>, InitialFiles, v, OlderRoot(v))
    ELSE LET r == releases[CHOOSE k \in DOMAIN releases :
                                get_name(releases[k]) = v]
         IN  IF get_download_link(r) = <<None>>
             THEN put_object(<<>>, v \o <<"/">>, EmptyBody, "private",
                             "binary/octet-stream")
             ELSE UploadAll(<<>>, ReleaseFiles(r), v, ReleaseRoot(r))

C3_SecondUploadPutsNothing ==
    \A p \in puts : p.phase = "upload" => p.run = 1

\* a second run of upload that ended, after a first that published an older
\* release and a release of the catalog
C3_Witness ==
    /\ run = 2
    /\ pc = "done"
    /\ run_upload
    /\ MarkedIn(1) \cap OlderNames # {}
    /\ MarkedIn(1) \cap (CatalogNames \ OlderNames) # {}
    /\ probe.phase = "upload"

\* C4, as claimed: upload requests no download for 0.7.3 nor for a release
\* the catalog lists before 0.7.3.
C4_NoFetchAtOrBeforeBoundary ==
    BoundaryAt # 0 =>
        \A f \in fetched : \A k \in 1..BoundaryAt :
            f.name # get_name(releases[k])

\* C4, amended: upload requests no download for 0.7.3 nor for a release the
\* catalog lists after 0.7.3.
C4_NoFetchAtOrAfterBoundary ==
    BoundaryAt # 0 =>
        \A f \in fetched : \A k \in BoundaryAt..Len(releases) :
            f.name # get_name(releases[k])

\* an upload that ended at the boundary, with a release listed after the
\* boundary that has a tarball and no marker, after a download
C4_Witness ==
    /\ pc = "done"
    /\ BoundaryAt # 0
    /\ BoundaryAt < Len(releases)
    /\ fetched # {}
    /\ \E k \in (BoundaryAt + 1)..Len(releases) :
          /\ get_download_link(releases[k]) # <<None>>
          /\ get_name(releases[k]) \o <<"/">> \notin DOMAIN store

\* the entries of the page that come from the releases of the API
ModernPart(page) ==
    SubSeq(page.data, 1, Len(page.data) - Len(older_releases))

\* C5: the entries index renders for the releases of the API are those of
\* the releases whose marker is in the bucket when index runs, in the order
\* of the catalog; a release without a marker has no entry.
C5_IndexListsMarkedReleases ==
    pc = "index_site" =>
        LET kept == SelectSeq(releases,
                        LAMBDA r : Tail(r.tag_name) \o <<"/">> \in DOMAIN store)
        IN  ModernPart(store[IndexKey].Body) =
                [k \in DOMAIN kept |-> Entry(kept[k])]

\* an index rendered with two marked releases and one without a marker
C5_Witness ==
    /\ pc = "index_site"
    /\ Len(ModernPart(store[IndexKey].Body)) = 2
    /\ Len(releases) = 3
    /\ get_name(releases[2]) \o <<"/">> \notin DOMAIN store

\* index.html was put by the run that is under way
IndexedThisRun ==
    \E p \in puts : p.run = run /\ p.key = IndexKey

\* C6, as claimed: in a run with both flags, a version upload marks for the
\* first time is not in the index.html the same run wrote.
C6_MarkedVersionNotInIndex ==
    (run_index /\ run_upload /\ IndexedThisRun) =>
        \A v \in MarkedIn(run) :
            \A e \in DOMAIN store[IndexKey].Body.data :
                store[IndexKey].Body.data[e].name # v

\* C6, amended: in a run with both flags, index has read the markers and
\* put its objects before upload puts any, and a release of the catalog that
\* upload marks for the first time has no entry among those index.html
\* lists for the releases of the API (the older releases are listed always).
C6_MarkedReleaseNotInIndex ==
    (run_index /\ run_upload) =>
        /\ pc \in {"index_filter", "index_render", "index_site"} =>
              UploadPuts(run) = {}
        /\ IndexedThisRun =>
              \A k \in DOMAIN releases :
                  get_name(releases[k]) \in MarkedIn(run) =>
                      \A e \in DOMAIN ModernPart(store[IndexKey].Body) :
                          ModernPart(store[IndexKey].Body)[e].name
                              # Tail(releases[k].name)

\* a run with both flags that ended after index wrote the page and upload
\* marked a release of the catalog and an older release
C6_Witness ==
    /\ run_index
    /\ run_upload
    /\ pc = "done"
    /\ IndexedThisRun
    /\ MarkedIn(run) \cap OlderNames # {}
    /\ \E k \in DOMAIN releases :
          /\ get_name(releases[k]) \in MarkedIn(run)
          /\ get_name(releases[k]) \notin OlderNames

\* C7, as claimed: for a release without a marker whose assets hold no
\* tarball or more than one, upload requests no download, the run does not
\* fail at it, and it has no marker afterwards.
C7_AmbiguousAssetSkipped ==
    \A k \in DOMAIN releases :
        get_download_link(releases[k]) = <<None>> =>
            LET name == get_name(releases[k])
            IN  /\ \A f \in fetched : f.name # name
                /\ ~(pc = "aborted" /\ err.at = name
                        /\ err.kind # "ClientError")
                /\ name \notin MarkedIn(run)

\* C8: is_version_uploaded gives False for a 404, True when the probe
\* succeeds, and raises for any other error; the phase then ends: the version
\* gets no entry and no index.html is put (index), nothing is downloaded or
\* put for it (upload).
C8_ProbeErrorsPropagate ==
    probe # NoProbe =>
        /\ probe.code = "404" => probe.result = "False"
        /\ probe.code = "200" => probe.result = "True"
        /\ probe.code \notin {"200", "404"} =>
              /\ probe.result = "raise"
              /\ pc = "aborted"
              /\ err = [kind |-> "ClientError", at |-> probe.version]
              /\ probe.phase = "index" =>
                    /\ ~IndexedThisRun
                    /\ \A e \in DOMAIN released :
                          released[e].name # probe.version
              /\ probe.phase = "upload" =>
                    /\ \A p \in UploadPuts(run) :
                          ~HasPrefix(p.key, probe.version)
                    /\ \A f \in fetched :
                          f.run = run => f.name # probe.version

\* a probe of upload answered 403 after the run had published a version
C8_Witness ==
    /\ probe.code = "403"
    /\ probe.phase = "upload"
    /\ UploadPuts(run) # {}
    /\ pc = "aborted"

\* the top-level directory of the archive a release links to
OwnArchive(release) == TarballAt(get_download_link(release)).tarball

\* C9, as claimed: a release whose download did not return 200 gets no file
\* under its prefix and no marker in that run, and every file upload puts
\* under the prefix of a release comes from the archive of that release.
C9_FailedDownloadPublishesNothing ==
    /\ \A f \in fetched :
          f.status_code # 200 =>
              \A p \in UploadPuts(f.run) : ~HasPrefix(p.key, f.name)
    /\ \A p \in UploadPuts(run) : \A r \in DOMAIN releases :
          ( /\ HasPrefix(p.key, get_name(releases[r]))
            /\ get_name(releases[r]) \notin OlderNames
            /\ p.key # get_name(releases[r]) \o <<"/">> ) =>
              store[p.key].Body.origin \in
                  {OwnArchive(releases[r]), "config.0.9.0.json"}

\* the comparison the documentation describes: pad the shorter list with
\* trailing zeros and take the sign of the first differing component
Padded(a, n) == [k \in 1..n |-> IF k <= Len(a) THEN a[k] ELSE 0]

PaddedSign(sa, sb) ==
    LET a == ParseVersion(sa)
        b == ParseVersion(sb)
        n == IF Len(a) > Len(b) THEN Len(a) ELSE Len(b)
        pa == Padded(a, n)
        pb == Padded(b, n)
        diff == {k \in 1..n : pa[k] # pb[k]}
    IN  IF diff = {} THEN 0
        ELSE LET k == CHOOSE j \in diff : \A m \in diff : j <= m
             IN  Sign(pa[k], pb[k])

\* C10: compare_version_strings(a, b) is the sign of the component-wise
\* comparison of a and b padded with trailing zeros, and
\* compare(a, b) = -compare(b, a).
C10_CompareIsPaddedSign ==
    cmp_result # <<>> =>
        /\ cmp_result[1] = PaddedSign(cmp_a, cmp_b)
        /\ cmp_result[1] \in {-1, 0, 1}
        /\ cmp_result[1] = -cmp_result[2]

\* a comparison of a version of three components with one of two that
\* agrees with it on the first two, such as "1.0.1" with "1.0"
C10_Witness ==
    /\ cmp_result # <<>>
    /\ Len(ParseVersion(cmp_a)) = 3
    /\ Len(ParseVersion(cmp_b)) = 2
    /\ cmp_result[1] = 1
    /\ \A k \in 1..2 : ParseVersion(cmp_a)[k] = ParseVersion(cmp_b)[k]

=============================================================================
